---- MODULE Spec2Model ----
(***************************************************************************)
(* Model of realloc4cpp: raw_buffer and autogrow_array                     *)
(* (src/realloc4cpp.cpp) over the memory providers reallocator             *)
(* (src/reallocator.h, jemalloc based) and std::allocator (the default     *)
(* template argument, a provider without in-place resize).                 *)
(*                                                                         *)
(* Pointers are records [blk, off]: a block identity and an element        *)
(* offset.  Block 0 is the null address.  size_type arithmetic is done     *)
(* modulo Modulus.                                                         *)
(***************************************************************************)
EXTENDS Integers, Sequences, FiniteSets, TLC

VARIABLES
    provider,   \* the Allocator template argument: "plain" or "reallocator"
    heap,       \* the provider's blocks: liveness, usable bytes, element slots
    buf,        \* autogrow_array::buf (raw_buffer: begin_, end_)
    next,       \* autogrow_array::next
    alive,      \* FALSE once ~autogrow_array has run
    last,       \* record of the last operation: what it called and what it saw
    hist,       \* pushes and pops counted since the array was last empty
    ub,         \* TRUE once some operation has had undefined behaviour
    other,      \* a second raw_buffer (the o of raw_buffer's move operations and swap)
    otherAlive  \* TRUE while other is a constructed object

vars == <<provider, heap, buf, next, alive, last, hist, ub, other, otherAlive>>

----------------------------------------------------------------------------
(* Bounds and constants *)

SizeMax == 19           \* ~size_type(0), scaled down
ElemSize == 4           \* sizeof(T) for T = int
NumBlocks == 2          \* block addresses the provider can hand out
MaxSlack == 1           \* size classes a block's real size may lie above the request
Overrun == 1            \* how far size may run past max_capacity in the model
MaxInit == 2            \* largest initial_size given to the sized constructor

Modulus == SizeMax + 1
Values == {1, 2}        \* values pushed; T{} is 0
Providers == {"plain", "reallocator"}

Min(a, b) == IF a < b THEN a ELSE b

----------------------------------------------------------------------------
(* Pointers, slots, blocks *)

Null == [blk |-> 0, off |-> 0]
Ptr(b, k) == [blk |-> b, off |-> k]
PtrAdd(p, k) == [blk |-> p.blk, off |-> p.off + k]
PtrDiff(p, q) == p.off - q.off

\* raw_buffer::max_capacity
max_capacity == SizeMax \div ElemSize
MaxSize == max_capacity + Overrun
MaxIdx == MaxSize

RawSlot == [st |-> "raw", v |-> 0]
NoBlock == [live |-> FALSE, usable |-> 0, slots |-> [i \in 0..MaxIdx |-> RawSlot]]
Blocks == 1..NumBlocks
FreeBlocks(h) == {b \in Blocks : ~h[b].live}
\* Block identities only name addresses: the least free one stands for any
FreshBlocks(h) == {b \in FreeBlocks(h) : \A c \in FreeBlocks(h) : b <= c}
Undestroyed(blk) == Cardinality({i \in 0..MaxIdx : blk.slots[i].st # "raw"})

\* the element slot p lies inside a live block's real size
InBlock(h, p) ==
    p.blk # 0 /\ h[p.blk].live /\ p.off >= 0 /\ (p.off + 1) * ElemSize <= h[p.blk].usable

\* The calls an operation has made; ub: one of them had undefined behaviour
\* (je_mallocx or je_xallocx with size 0, je_xallocx on no block, an element
\* read or written outside its block).
Log0 == [moves |-> <<>>, constructs |-> <<>>, destroys |-> <<>>,
         allocs |-> <<>>, deallocs |-> <<>>, resizes |-> 0, ub |-> FALSE]

\* raw_buffer::raw_buffer()
raw_buffer_default == [begin_ |-> Null, end_ |-> Null]
\* raw_buffer::capacity
capacity(b) == PtrDiff(b.end_, b.begin_)
\* autogrow_array::size
size_of(b, nx) == PtrDiff(nx, b.begin_)
\* autogrow_array::empty
empty(b, nx) == nx = b.begin_

Size == size_of(buf, next)
Cap == capacity(buf)
\* the values held by slots [0, size) of the array's block
ElemsOf(h, b, nx) == [i \in 1..size_of(b, nx) |-> h[b.begin_.blk].slots[i - 1].v]
Elems == ElemsOf(heap, buf, next)

----------------------------------------------------------------------------
(* jemalloc, as seen by reallocator *)

\* jemalloc's real sizes are its size classes, multiples of the quantum; the
\* quantum is a multiple of sizeof(int)
Quantum == ElemSize
SizeClasses == {q * Quantum : q \in 0..(SizeMax \div Quantum)}
\* the size classes that serve a request of the given bytes
Serving(bytes) == {c \in SizeClasses : bytes <= c /\ c < bytes + (MaxSlack + 1) * Quantum}

\* je_mallocx(size): the real sizes a new block may get
MallocxSizes(bytes) == Serving(bytes)

\* je_xallocx(p, size, extra) is undefined on a pointer that is no live block,
\* and for size 0
XallocxUndefined(h, p, bytes) == p.blk = 0 \/ ~h[p.blk].live \/ bytes = 0

\* je_xallocx(p, size, extra): the real size of the block afterwards. Either the
\* block is left as it is, or it is resized in place to at least size bytes. A
\* call on a pointer that is no live block is undefined: any answer.
Xallocx(h, p, bytes, extra) ==
    IF p.blk = 0 \/ ~h[p.blk].live THEN SizeClasses
    ELSE LET u == h[p.blk].usable IN
         {u} \cup {r \in Serving(bytes) \cup Serving(Min(bytes + extra, SizeMax)) :
                      bytes <= u => r <= u}

SetUsable(h, p, r) ==
    IF p.blk = 0 \/ ~h[p.blk].live THEN h ELSE [h EXCEPT ![p.blk].usable = r]

----------------------------------------------------------------------------
(* reallocator *)

\* reallocator::expand_by: the arguments of je_xallocx
expand_by_request(size, preferred_n, least_n) ==
    [bytes |-> (((size + least_n) % Modulus) * ElemSize) % Modulus,
     extra |-> (((preferred_n - least_n) % Modulus) * ElemSize) % Modulus]

\* reallocator::expand_by: the answer, given what je_xallocx returned
expand_by_answer(size, new_size_bytes) ==
    LET old_size == size
        new_size == new_size_bytes \div ElemSize
    IN  IF new_size <= old_size THEN [ok |-> FALSE, size |-> size]
        ELSE [ok |-> TRUE, size |-> new_size]

\* reallocator::shrink_by: the arguments of je_xallocx
shrink_by_request(size, n) ==
    [bytes |-> (((size - n) % Modulus) * ElemSize) % Modulus, extra |-> 0]

\* reallocator::shrink_by: the answer, given what je_xallocx returned
shrink_by_answer(size, new_size_bytes) ==
    LET old_size == size
        new_size == new_size_bytes \div ElemSize
    IN  IF new_size >= old_size THEN [ok |-> FALSE, size |-> size]
        ELSE [ok |-> TRUE, size |-> new_size]

----------------------------------------------------------------------------
(* The provider as raw_buffer reaches it through allocator_traits.         *)
(* S is a record [heap, buf, next, lg].                                    *)

\* A::allocate(a, n): a.allocate(n). The outcomes: bad_alloc, or a new block.
allocate(prov, S, n) ==
    LET bytes == IF prov = "reallocator" THEN (n * ElemSize) % Modulus
                 ELSE n * ElemSize
        lg == [S.lg EXCEPT !.allocs = Append(@, n),
                           !.ub = @ \/ (prov = "reallocator" /\ bytes = 0)]
        sizes == IF prov = "reallocator" THEN MallocxSizes(bytes)
                 ELSE IF n > max_capacity THEN {} ELSE {bytes}
    IN  {[throws |-> TRUE, p |-> Null, S |-> [S EXCEPT !.lg = lg]]}
        \cup
        {[throws |-> FALSE, p |-> Ptr(b, 0),
          S |-> [S EXCEPT !.lg = lg,
                          !.heap[b] = [NoBlock EXCEPT !.live = TRUE, !.usable = u]]]
            : b \in FreshBlocks(S.heap), u \in sizes}

\* A::deallocate(a, p, n): a.deallocate(p, n). (reallocator::deallocate hands
\* n, an element count, to je_sdallocx, which takes a size in bytes.)
deallocate(S, p, n) ==
    [S EXCEPT !.lg.deallocs = Append(@, [p |-> p, n |-> n,
                                          undestroyed |-> Undestroyed(S.heap[p.blk]),
                                          live |-> S.heap[p.blk].live]),
              !.heap[p.blk] = NoBlock]

\* A::expand_by(a, p, size, preferred_n, least_n): the provider's expand_by when
\* it has one, false otherwise. Outcomes [ok, size, heap, ub].
expand_by(prov, h, p, size, preferred_n, least_n) ==
    IF prov = "reallocator"
    THEN LET rq == expand_by_request(size, preferred_n, least_n) IN
         {[ok |-> expand_by_answer(size, r).ok,
           size |-> expand_by_answer(size, r).size,
           heap |-> SetUsable(h, p, r),
           ub |-> XallocxUndefined(h, p, rq.bytes)] : r \in Xallocx(h, p, rq.bytes, rq.extra)}
    ELSE {[ok |-> FALSE, size |-> size, heap |-> h, ub |-> FALSE]}

\* A::shrink_by(a, p, size, n): the provider's shrink_by when it has one, false
\* otherwise. Outcomes [ok, size, heap, ub].
shrink_by(prov, h, p, size, n) ==
    IF prov = "reallocator"
    THEN LET rq == shrink_by_request(size, n) IN
         {[ok |-> shrink_by_answer(size, r).ok,
           size |-> shrink_by_answer(size, r).size,
           heap |-> SetUsable(h, p, r),
           ub |-> XallocxUndefined(h, p, rq.bytes)] : r \in Xallocx(h, p, rq.bytes, rq.extra)}
    ELSE {[ok |-> FALSE, size |-> size, heap |-> h, ub |-> FALSE]}

\* A::construct(a, p, v)
construct(S, p, v) ==
    [S EXCEPT !.heap[p.blk].slots[p.off] = [st |-> "live", v |-> v],
              !.lg.constructs = Append(@, [p |-> p, v |-> v]),
              !.lg.ub = @ \/ ~InBlock(S.heap, p)]

\* A::destroy(a, p)
destroy(S, p) ==
    [S EXCEPT !.lg.destroys = Append(@, [p |-> p, st |-> S.heap[p.blk].slots[p.off].st]),
              !.heap[p.blk].slots[p.off] = RawSlot]

----------------------------------------------------------------------------
(* raw_buffer *)

\* begin_ + n: the address is n * sizeof(T) bytes further, at the width of an
\* address; end_ - begin_ gives back the elements that fit in those bytes
PtrAddWrapped(p, n) == PtrAdd(p, ((n * ElemSize) % Modulus) \div ElemSize)

\* raw_buffer::raw_buffer(size_type initial_capacity). Outcomes [throws, buf, S].
raw_buffer_sized(prov, S, initial_capacity) ==
    {[throws |-> a.throws,
      buf |-> [begin_ |-> a.p, end_ |-> PtrAddWrapped(a.p, initial_capacity)],
      S |-> a.S] : a \in allocate(prov, S, initial_capacity)}

\* a move constructor that copies the bounds and leaves the source as it was
raw_buffer_move_copying(b) ==
    [this |-> [begin_ |-> b.begin_, end_ |-> b.end_],
     o |-> [begin_ |-> b.begin_, end_ |-> b.end_]]

\* raw_buffer::raw_buffer(raw_buffer &&o): the pair (this, o) afterwards
raw_buffer_move(b) ==
    [this |-> [begin_ |-> b.begin_, end_ |-> b.end_],
     o |-> [begin_ |-> Null, end_ |-> Null]]

\* raw_buffer::~raw_buffer
raw_buffer_dtor(S, b) ==
    IF b.begin_ # Null THEN deallocate(S, b.begin_, capacity(b)) ELSE S

\* raw_buffer::swap: the pair (this, o) afterwards
raw_buffer_swap(b, o) ==
    [this |-> [begin_ |-> o.begin_, end_ |-> o.end_],
     o |-> [begin_ |-> b.begin_, end_ |-> b.end_]]

\* raw_buffer::operator=(raw_buffer &&o): swap(o), and no return statement. The
\* pair (this, o) afterwards; ub: control flows off the end of a function that
\* returns a reference.
raw_buffer_move_assign(b, b2) ==
    [this |-> raw_buffer_swap(b, b2).this, o |-> raw_buffer_swap(b, b2).o, ub |-> TRUE]

\* additional_capacity without the test against the remaining headroom
additional_capacity_unchecked(b, n) ==
    LET cap == capacity(b)
        cap_remain == (max_capacity - cap) % Modulus
    IN  [throws |-> FALSE, val |-> Min(cap, cap_remain)]

\* raw_buffer::additional_capacity
additional_capacity(b, n) ==
    LET cap == capacity(b)
        cap_remain == (max_capacity - cap) % Modulus
    IN  IF n > cap_remain THEN [throws |-> TRUE, val |-> 0]
        ELSE [throws |-> FALSE, val |-> Min(cap, cap_remain)]

\* expand_by_at_least, emulated by allocating a new block of the preferred size
expand_by_at_least_allocating(prov, S, b, preferred_n, least_n) ==
    {[ok |-> ~a.throws,
      buf |-> IF a.throws THEN b
              ELSE [begin_ |-> a.p, end_ |-> PtrAdd(a.p, capacity(b) + preferred_n)],
      S |-> a.S] : a \in allocate(prov, S, capacity(b) + preferred_n)}

\* raw_buffer::expand_by_at_least. Outcomes [ok, buf, S].
expand_by_at_least(prov, S, b, preferred_n, least_n) ==
    LET S1 == [S EXCEPT !.lg.resizes = @ + 1] IN
    {[ok |-> e.ok,
      buf |-> IF e.ok THEN [b EXCEPT !.end_ = PtrAdd(b.begin_, e.size)] ELSE b,
      S |-> [S1 EXCEPT !.heap = e.heap, !.lg.ub = @ \/ e.ub]]
        : e \in expand_by(prov, S.heap, b.begin_, capacity(b), preferred_n, least_n)}

\* shrink_by, emulated by allocating a new block of the smaller capacity
raw_buffer_shrink_by_allocating(prov, S, b, n) ==
    {[ok |-> ~a.throws,
      buf |-> IF a.throws THEN b
              ELSE [begin_ |-> a.p, end_ |-> PtrAdd(a.p, (capacity(b) - n) % Modulus)],
      S |-> a.S] : a \in allocate(prov, S, (capacity(b) - n) % Modulus)}

\* raw_buffer::shrink_by. Outcomes [ok, buf, S].
raw_buffer_shrink_by(prov, S, b, n) ==
    LET S1 == [S EXCEPT !.lg.resizes = @ + 1] IN
    {[ok |-> e.ok,
      buf |-> IF e.ok THEN [b EXCEPT !.end_ = PtrAdd(b.begin_, e.size)] ELSE b,
      S |-> [S1 EXCEPT !.heap = e.heap, !.lg.ub = @ \/ e.ub]]
        : e \in shrink_by(prov, S.heap, b.begin_, capacity(b), n)}

----------------------------------------------------------------------------
(* autogrow_array *)

\* uninitialized_copy, returning the start of the destination instead of its end
uninitialized_copy_begin(S, first, last_, d, garbage) ==
    LET n == last_.off - first.off IN
    [S |-> [S EXCEPT
              !.heap[d.blk].slots =
                  [i \in 0..MaxIdx |->
                      IF i >= d.off /\ i < d.off + n
                      THEN [st |-> "live",
                            v |-> S.heap[first.blk].slots[first.off + i - d.off].v]
                      ELSE @[i]],
              !.lg.moves = [i \in 1..n |-> [from |-> PtrAdd(first, i - 1),
                                            to |-> PtrAdd(d, i - 1)]]],
     ret |-> d]

\* std::uninitialized_copy over move iterators: move-constructs [first, last_)
\* at d, d+1, ... in increasing order and returns the end of the destination.
\* A source slot outside its block is read as garbage.
RECURSIVE uninitialized_copy(_, _, _, _, _)
uninitialized_copy(S, first, last_, d, garbage) ==
    IF first.off >= last_.off THEN [S |-> S, ret |-> d]
    ELSE LET val == IF InBlock(S.heap, first)
                    THEN S.heap[first.blk].slots[first.off].v ELSE garbage
             S1 == [S EXCEPT !.heap[d.blk].slots[d.off] = [st |-> "live", v |-> val],
                             !.heap[first.blk].slots[first.off].st = "moved",
                             !.lg.moves = Append(@, [from |-> first, to |-> d]),
                             !.lg.ub = @ \/ ~InBlock(S.heap, first) \/ ~InBlock(S.heap, d)]
         IN  uninitialized_copy(S1, PtrAdd(first, 1), last_, PtrAdd(d, 1), garbage)

\* std::uninitialized_fill_n(first, n, T{})
RECURSIVE uninitialized_fill_n(_, _, _)
uninitialized_fill_n(S, first, n) ==
    IF n = 0 THEN [S |-> S, ret |-> first]
    ELSE uninitialized_fill_n(construct(S, first, 0), PtrAdd(first, 1), n - 1)

\* the pointer autogrow_array::pop_back hands to destroy
pop_back_target(nx) == nx

\* autogrow_array::pop_back
pop_back(S) ==
    LET S1 == destroy(S, pop_back_target(S.next))
    IN  [S1 EXCEPT !.next = PtrAdd(S.next, -1)]

\* clear, also giving the block back to the provider
clear_releasing(S) ==
    [raw_buffer_dtor(S, S.buf) EXCEPT !.buf = raw_buffer_default, !.next = Null]

\* autogrow_array::clear
RECURSIVE clear(_)
clear(S) == IF empty(S.buf, S.next) THEN S ELSE clear(pop_back(S))

\* the destination of the fallback moves: new_buf.begin()
fallback_dest(new_buf) == new_buf.begin_

\* a fallback that gives the old block back before it asks for the new one
reallocate_releasing_first(prov, S, n) ==
    {[throws |-> nb.throws,
      S |-> IF nb.throws THEN nb.S
            ELSE [nb.S EXCEPT !.buf = nb.buf,
                              !.next = PtrAdd(nb.buf.begin_, size_of(S.buf, S.next))]]
        : nb \in raw_buffer_sized(prov, raw_buffer_dtor(S, S.buf), n)}

\* The fallback of push_back and shrink_to_fit: a new buffer of n elements,
\* the live elements moved into it, the buffers swapped, the old one discarded.
\* Outcomes [throws, S].
reallocate(prov, S, n) ==
    UNION {
        IF nb.throws THEN {[throws |-> TRUE, S |-> nb.S]}
        ELSE {LET mv == uninitialized_copy(nb.S, S.buf.begin_, S.next,
                                           fallback_dest(nb.buf), g)
                  sw == raw_buffer_swap(S.buf, nb.buf)
                  S2 == [mv.S EXCEPT !.next = mv.ret, !.buf = sw.this]
              IN  [throws |-> FALSE, S |-> raw_buffer_dtor(S2, sw.o)]
                : g \in IF \E i \in 0..(S.next.off - 1) :
                                 ~InBlock(S.heap, PtrAdd(S.buf.begin_, i))
                         THEN Values ELSE {0}}
        : nb \in raw_buffer_sized(prov, S, n)}

\* autogrow_array::push_back. Outcomes [result, path, S].
push_back(prov, S, v) ==
    LET finish(S1) == [construct(S1, S1.next, v) EXCEPT !.next = PtrAdd(S1.next, 1)]
    IN
    IF S.next # S.buf.end_
    THEN {[result |-> "ok", path |-> "room", S |-> finish(S)]}
    ELSE LET add_cap == additional_capacity(S.buf, 1) IN
         IF add_cap.throws
         THEN {[result |-> "length_error", path |-> "none", S |-> S]}
         ELSE UNION {
                IF e.ok
                THEN {[result |-> "ok", path |-> "inplace",
                       S |-> finish([e.S EXCEPT !.buf = e.buf])]}
                ELSE {IF r.throws
                      THEN [result |-> "bad_alloc", path |-> "fallback", S |-> r.S]
                      ELSE [result |-> "ok", path |-> "fallback", S |-> finish(r.S)]
                        : r \in reallocate(prov, e.S,
                                           (size_of(S.buf, S.next) + add_cap.val) % Modulus)}
                : e \in expand_by_at_least(prov, S, S.buf, add_cap.val, 1)}

\* autogrow_array::shrink_to_fit. Outcomes [result, path, S].
shrink_to_fit(prov, S) ==
    IF size_of(S.buf, S.next) = capacity(S.buf)
    THEN {[result |-> "ok", path |-> "noop", S |-> S]}
    ELSE UNION {
           IF e.ok
           THEN {[result |-> "ok", path |-> "inplace", S |-> [e.S EXCEPT !.buf = e.buf]]}
           ELSE {IF r.throws
                 THEN [result |-> "bad_alloc", path |-> "fallback", S |-> r.S]
                 ELSE [result |-> "ok", path |-> "fallback", S |-> r.S]
                   : r \in reallocate(prov, e.S, size_of(S.buf, S.next))}
           : e \in raw_buffer_shrink_by(prov, S, S.buf,
                       (capacity(S.buf) - size_of(S.buf, S.next)) % Modulus)}

\* autogrow_array::autogrow_array(size_type initial_size). Outcomes [throws, S].
autogrow_array_sized(prov, h, initial_size) ==
    {IF nb.throws THEN [throws |-> TRUE, S |-> nb.S]
     ELSE LET f == uninitialized_fill_n([nb.S EXCEPT !.buf = nb.buf],
                                        nb.buf.begin_, initial_size)
          IN  [throws |-> FALSE, S |-> [f.S EXCEPT !.next = f.ret]]
       : nb \in raw_buffer_sized(prov,
                   [heap |-> h, buf |-> raw_buffer_default, next |-> Null, lg |-> Log0],
                   initial_size)}

\* autogrow_array::~autogrow_array: clear(), then the member buf is destroyed
autogrow_array_dtor(S) == raw_buffer_dtor(clear(S), S.buf)

----------------------------------------------------------------------------
(* The array as a state machine *)

Heap0 == [b \in 0..NumBlocks |-> NoBlock]
Here == [heap |-> heap, buf |-> buf, next |-> next, lg |-> Log0]

\* What the last operation was, what it was given, how it ended, the array
\* before it and the calls it made.
Record(op, arg, path, result, ret, S) ==
    [op |-> op, arg |-> arg, path |-> path, result |-> result, ret |-> ret,
     oldBuf |-> buf, oldNext |-> next, oldElems |-> Elems, lg |-> S.lg,
     clean |-> ~ub]

CtorRecord(arg, path, lg) ==
    [op |-> "ctor", arg |-> arg, path |-> path, result |-> "ok", ret |-> 0,
     oldBuf |-> raw_buffer_default, oldNext |-> Null, oldElems |-> <<>>, lg |-> lg,
     clean |-> TRUE]

\* hist follows a run of push_back calls on an array that was empty, then the
\* pop_back or clear calls after them; any other order ends the run.
HistOther == [phase |-> "other", nPush |-> 0, nPop |-> 0, capAfterPush |-> 0,
              paths |-> {}]
Hist0(b, nx) ==
    IF size_of(b, nx) = 0
    THEN [phase |-> "push", nPush |-> 0, nPop |-> 0, capAfterPush |-> capacity(b),
          paths |-> {}]
    ELSE HistOther
HistPush(h, oldSize, newCap, path) ==
    IF h.phase = "push"
    THEN [h EXCEPT !.nPush = @ + 1, !.capAfterPush = newCap, !.paths = @ \cup {path}]
    ELSE IF oldSize = 0
    THEN [phase |-> "push", nPush |-> 1, nPop |-> 0, capAfterPush |-> newCap,
          paths |-> {path}]
    ELSE HistOther
HistPop(h) ==
    IF h.phase \in {"push", "pop"} THEN [h EXCEPT !.phase = "pop", !.nPop = @ + 1]
    ELSE HistOther
HistClear(h) ==
    IF h.phase \in {"push", "pop"} THEN [h EXCEPT !.phase = "pop", !.nPop = h.nPush]
    ELSE HistOther

\* Nothing reads a slot at or past next before it is constructed again (there
\* destroy takes no value, push_back constructs, the fallback moves [begin, next)):
\* such a slot keeps its lifetime state, and its value is not part of the state.
\* Block 0, the null address, is no memory: what is written there is not kept.
Forget(S) ==
    [S.heap EXCEPT ![S.buf.begin_.blk].slots =
                        [i \in 0..MaxIdx |-> IF i >= size_of(S.buf, S.next)
                                              THEN [@[i] EXCEPT !.v = 0] ELSE @[i]],
                   ![0] = NoBlock]

Become(S) ==
    /\ heap' = Forget(S)
    /\ buf' = S.buf
    /\ next' = S.next
    /\ ub' = (ub \/ S.lg.ub)

InitArray ==
    /\ provider \in Providers
    /\ alive = TRUE
    /\ \/ /\ heap = Heap0
          /\ buf = raw_buffer_default
          /\ next = buf.begin_
          /\ last = CtorRecord(0, "default", Log0)
       \/ \E n \in 0..MaxInit :
          \E c \in autogrow_array_sized(provider, Heap0, n) :
            /\ ~c.throws
            /\ heap = c.S.heap
            /\ buf = c.S.buf
            /\ next = c.S.next
            /\ last = CtorRecord(n, "sized", c.S.lg)
    /\ hist = Hist0(buf, next)
    /\ ub = last.lg.ub
    /\ other = raw_buffer_default
    /\ otherAlive = FALSE

PushBack ==
    /\ alive
    /\ Size < MaxSize
    /\ \E v \in Values : \E o \in push_back(provider, Here, v) :
        /\ Become(o.S)
        /\ last' = Record("push_back", v, o.path, o.result, 0, o.S)
        /\ hist' = IF o.result = "ok"
                   THEN HistPush(hist, Size, capacity(o.S.buf), o.path)
                   ELSE hist
    /\ UNCHANGED <<provider, alive, other, otherAlive>>

PopBack ==
    /\ alive
    /\ ~empty(buf, next)
    /\ LET S == pop_back(Here) IN
        /\ Become(S)
        /\ last' = Record("pop_back", 0, "none", "ok", 0, S)
    /\ hist' = HistPop(hist)
    /\ UNCHANGED <<provider, alive, other, otherAlive>>

Clear ==
    /\ alive
    /\ LET S == clear(Here) IN
        /\ Become(S)
        /\ last' = Record("clear", 0, "none", "ok", 0, S)
    /\ hist' = HistClear(hist)
    /\ UNCHANGED <<provider, alive, other, otherAlive>>

ShrinkToFit ==
    /\ alive
    /\ \E o \in shrink_to_fit(provider, Here) :
        /\ Become(o.S)
        /\ last' = Record("shrink_to_fit", 0, o.path, o.result, 0, o.S)
    /\ hist' = HistOther
    /\ UNCHANGED <<provider, alive, other, otherAlive>>

Destroy ==
    /\ alive
    /\ LET S == autogrow_array_dtor(Here) IN
        /\ Become(S)
        /\ last' = Record("dtor", 0, "none", "ok", 0, S)
    /\ alive' = FALSE
    /\ hist' = HistOther
    /\ UNCHANGED <<provider, other, otherAlive>>

Init == InitArray
Next == PushBack \/ PopBack \/ Clear \/ ShrinkToFit \/ Destroy
Spec == Init /\ [][Next]_vars

----------------------------------------------------------------------------
(* A raw_buffer on its own: its methods called directly, with any arguments *)

MaxArg == 2             \* largest element count given to a raw_buffer method

InitBuf ==
    /\ provider \in Providers
    /\ alive = TRUE
    /\ next = Null
    /\ hist = HistOther
    /\ \/ /\ heap = Heap0
          /\ buf = raw_buffer_default
          /\ last = CtorRecord(0, "default", Log0)
       \/ \E n \in 0..MaxInit :
          \E c \in raw_buffer_sized(provider,
                      [heap |-> Heap0, buf |-> raw_buffer_default, next |-> Null,
                       lg |-> Log0], n) :
            /\ ~c.throws
            /\ heap = c.S.heap
            /\ buf = c.buf
            /\ last = CtorRecord(n, "sized", c.S.lg)
    /\ ub = last.lg.ub
    /\ other = raw_buffer_default
    /\ otherAlive = FALSE

BufExpand ==
    /\ \E preferred_n \in 0..MaxArg, least_n \in 0..MaxArg :
       \E o \in expand_by_at_least(provider, Here, buf, preferred_n, least_n) :
        /\ heap' = o.S.heap
        /\ buf' = o.buf
        /\ ub' = (ub \/ o.S.lg.ub)
        /\ last' = Record("expand_by_at_least",
                          [preferred_n |-> preferred_n, least_n |-> least_n],
                          "none", "ok", o.ok, o.S)
    /\ UNCHANGED <<provider, next, alive, hist, other, otherAlive>>

BufShrink ==
    /\ \E n \in 0..MaxArg :
       \E o \in raw_buffer_shrink_by(provider, Here, buf, n) :
        /\ heap' = o.S.heap
        /\ buf' = o.buf
        /\ ub' = (ub \/ o.S.lg.ub)
        /\ last' = Record("shrink_by", n, "none", "ok", o.ok, o.S)
    /\ UNCHANGED <<provider, next, alive, hist, other, otherAlive>>

BufAdditionalCapacity ==
    /\ \E n \in 0..(max_capacity + 1) :
       LET r == additional_capacity(buf, n) IN
        last' = Record("additional_capacity", n, "none",
                       IF r.throws THEN "length_error" ELSE "ok", r.val, Here)
    /\ UNCHANGED <<provider, heap, buf, next, alive, hist, ub, other, otherAlive>>

NextBuf == BufExpand \/ BufShrink \/ BufAdditionalCapacity
SpecBuf == InitBuf /\ [][NextBuf]_vars

----------------------------------------------------------------------------
(* Two raw_buffer objects of one provider type: constructed, move-constructed, *)
(* move-assigned, swapped, resized and destroyed in any order                  *)

\* the initial capacities given to the sized constructor: small ones, and the
\* first ones past max_capacity
CtorArgs == (0..MaxInit) \cup {max_capacity + 1, max_capacity + 2}

\* object 1 is buf, object 2 is other
Obj(k) == IF k = 1 THEN [alive |-> alive, b |-> buf]
          ELSE [alive |-> otherAlive, b |-> other]
Gone == [alive |-> FALSE, b |-> raw_buffer_default]
Living(b) == [alive |-> TRUE, b |-> b]
\* object k becomes x, the other object becomes y
Put(k, x, y) ==
    /\ buf' = IF k = 1 THEN x.b ELSE y.b
    /\ alive' = IF k = 1 THEN x.alive ELSE y.alive
    /\ other' = IF k = 1 THEN y.b ELSE x.b
    /\ otherAlive' = IF k = 1 THEN y.alive ELSE x.alive

\* the object an operation is called on (dst), its argument n, and both objects
\* as they were before the call
OwnArg(k, n) == [dst |-> k, n |-> n, oldDst |-> Obj(k), oldSrc |-> Obj(3 - k)]

InitOwn ==
    /\ provider \in Providers
    /\ heap = Heap0
    /\ buf = raw_buffer_default
    /\ alive = FALSE
    /\ other = raw_buffer_default
    /\ otherAlive = FALSE
    /\ next = Null
    /\ hist = HistOther
    /\ last = CtorRecord(0, "none", Log0)
    /\ ub = FALSE

\* raw_buffer b; or raw_buffer b(n);
OwnConstruct ==
    /\ \E k \in 1..2 :
        /\ ~Obj(k).alive
        /\ \/ /\ Put(k, Living(raw_buffer_default), Obj(3 - k))
              /\ last' = Record("raw_buffer", OwnArg(k, 0), "default", "ok", 0, Here)
              /\ UNCHANGED <<heap, ub>>
           \/ \E n \in CtorArgs : \E c \in raw_buffer_sized(provider, Here, n) :
              /\ Put(k, IF c.throws THEN Gone ELSE Living(c.buf), Obj(3 - k))
              /\ heap' = c.S.heap
              /\ ub' = (ub \/ c.S.lg.ub)
              /\ last' = Record("raw_buffer", OwnArg(k, n), "sized",
                                IF c.throws THEN "bad_alloc" ELSE "ok", 0, c.S)
    /\ UNCHANGED <<provider, next, hist>>

\* raw_buffer b(std::move(a));
OwnMoveConstruct ==
    /\ \E k \in 1..2 :
        /\ ~Obj(k).alive
        /\ Obj(3 - k).alive
        /\ LET m == raw_buffer_move(Obj(3 - k).b) IN
            /\ Put(k, Living(m.this), Living(m.o))
            /\ last' = Record("move_ctor", OwnArg(k, 0), "none", "ok", 0, Here)
    /\ UNCHANGED <<provider, heap, next, hist, ub>>

\* b = std::move(a);
OwnMoveAssign ==
    /\ \E k \in 1..2 :
        /\ Obj(k).alive
        /\ Obj(3 - k).alive
        /\ LET m == raw_buffer_move_assign(Obj(k).b, Obj(3 - k).b) IN
            /\ Put(k, Living(m.this), Living(m.o))
            /\ ub' = (ub \/ m.ub)
            /\ last' = Record("move_assign", OwnArg(k, 0), "none", "ok", 0,
                              [Here EXCEPT !.lg.ub = m.ub])
    /\ UNCHANGED <<provider, heap, next, hist>>

\* b.swap(a);
OwnSwap ==
    /\ \E k \in 1..2 :
        /\ Obj(k).alive
        /\ Obj(3 - k).alive
        /\ LET m == raw_buffer_swap(Obj(k).b, Obj(3 - k).b) IN
            /\ Put(k, Living(m.this), Living(m.o))
            /\ last' = Record("swap", OwnArg(k, 0), "none", "ok", 0, Here)
    /\ UNCHANGED <<provider, heap, next, hist, ub>>

\* b.expand_by_at_least(preferred_n, least_n);
OwnExpand ==
    /\ \E k \in 1..2 :
        /\ Obj(k).alive
        /\ \E least_n \in 1..MaxArg : \E preferred_n \in least_n..MaxArg :
           \E e \in expand_by_at_least(provider, Here, Obj(k).b, preferred_n, least_n) :
            /\ Put(k, Living(e.buf), Obj(3 - k))
            /\ heap' = e.S.heap
            /\ ub' = (ub \/ e.S.lg.ub)
            /\ last' = Record("expand_by_at_least", OwnArg(k, least_n), "none", "ok",
                              e.ok, e.S)
    /\ UNCHANGED <<provider, next, hist>>

\* b.shrink_by(n);
OwnShrink ==
    /\ \E k \in 1..2 :
        /\ Obj(k).alive
        /\ \E n \in 1..MaxArg :
           \E e \in raw_buffer_shrink_by(provider, Here, Obj(k).b, n) :
            /\ Put(k, Living(e.buf), Obj(3 - k))
            /\ heap' = e.S.heap
            /\ ub' = (ub \/ e.S.lg.ub)
            /\ last' = Record("shrink_by", OwnArg(k, n), "none", "ok", e.ok, e.S)
    /\ UNCHANGED <<provider, next, hist>>

\* the end of b's lifetime
OwnDestroy ==
    /\ \E k \in 1..2 :
        /\ Obj(k).alive
        /\ LET S == raw_buffer_dtor(Here, Obj(k).b) IN
            /\ Put(k, Gone, Obj(3 - k))
            /\ heap' = S.heap
            /\ last' = Record("~raw_buffer", OwnArg(k, 0), "none", "ok", 0, S)
    /\ UNCHANGED <<provider, next, hist, ub>>

NextOwn ==
    \/ OwnConstruct \/ OwnMoveConstruct \/ OwnMoveAssign \/ OwnSwap
    \/ OwnExpand \/ OwnShrink \/ OwnDestroy
SpecOwn == InitOwn /\ [][NextOwn]_vars

----------------------------------------------------------------------------
(* allocator_traits::resize_allocated, over the providers it can be given     *)

\* The provider types by the resize_allocated members they have: the
\* single-target one (p, cur_size, new_size), the dual-bound one
\* (p, cur_size, preferred_size, at_least_size), both, or neither.
ResizeKinds == {"single", "dual", "both", "neither"}
HasSingle(kind) == kind \in {"single", "both"}
HasDual(kind) == kind \in {"dual", "both"}

\* What the provider answers to its first and to its second call: whether it
\* resized the block, and how much more than the size asked for it then reports.
Answers == [1..2 -> [ok : BOOLEAN, more : 0..1]]

\* a.resize_allocated(p, cur_size, size) and a.resize_allocated(p, cur_size,
\* size, at_least_size), the i-th call made: T is the evaluation so far, [wf,
\* ret, size, calls]; size is the reference argument.
ProviderResize(T, prim, cur_size, size, at_least_size, ans) ==
    LET a == ans[Len(T.calls) + 1] IN
    [wf |-> TRUE, ret |-> a.ok,
     size |-> IF a.ok THEN size + a.more ELSE size,
     calls |-> Append(T.calls, [prim |-> prim, cur_size |-> cur_size,
                                size |-> size, at_least_size |-> at_least_size])]

NoCall(size) == [wf |-> TRUE, ret |-> FALSE, size |-> size, calls |-> <<>>]
\* the call has no best overload: the program is ill-formed
Ambiguous(size) == [wf |-> FALSE, ret |-> FALSE, size |-> size, calls |-> <<>>]

\* allocator_traits::resize_allocated_at_least: three overloads. The first two
\* take a sixth argument of type int and exist when the provider's dual-bound,
\* respectively single-target, member can be called; they have the same
\* parameter list. The third takes (...) after five parameters. sixth: "0" when
\* the call passes a sixth argument 0, "absent" when it passes five arguments.
resize_allocated_at_least(kind, cur_size, preferred_size, at_least_size, sixth, ans) ==
    IF sixth = "absent" THEN NoCall(preferred_size)
    ELSE IF HasDual(kind) /\ HasSingle(kind) THEN Ambiguous(preferred_size)
    ELSE IF HasDual(kind)
    THEN ProviderResize(NoCall(preferred_size), "dual", cur_size, preferred_size,
                        at_least_size, ans)
    ELSE IF HasSingle(kind)
    THEN LET new_size == preferred_size
             first == ProviderResize(NoCall(preferred_size), "single", cur_size,
                                     preferred_size, 0, ans)
         IN  IF first.ret THEN first
             ELSE IF at_least_size = new_size THEN [first EXCEPT !.ret = FALSE]
             ELSE ProviderResize(first, "single", cur_size, at_least_size, 0, ans)
    ELSE NoCall(preferred_size)

\* allocator_traits::resize_allocated_exact: the overload taking int when the
\* provider's single-target member can be called, the overload taking (...)
\* otherwise
resize_allocated_exact(kind, cur_size, new_size, ans) ==
    IF HasSingle(kind)
    THEN ProviderResize(NoCall(new_size), "single", cur_size, new_size, 0, ans)
    ELSE resize_allocated_at_least(kind, cur_size, new_size, new_size, "absent", ans)

\* allocator_traits::resize_allocated(a, p, cur_size, new_size)
resize_allocated(kind, cur_size, new_size, ans) ==
    resize_allocated_exact(kind, cur_size, new_size, ans)

\* allocator_traits::resize_allocated(a, p, cur_size, preferred_size, at_least_size)
resize_allocated_preferred(kind, cur_size, preferred_size, at_least_size, ans) ==
    resize_allocated_at_least(kind, cur_size, preferred_size, at_least_size, "0", ans)

TraitsRecord(op, arg, ans, T) ==
    [op |-> op, arg |-> arg, ans |-> ans, wf |-> T.wf, ret |-> T.ret,
     size |-> T.size, calls |-> T.calls]

InitTraits ==
    /\ provider \in ResizeKinds
    /\ heap = Heap0
    /\ buf = raw_buffer_default
    /\ alive = FALSE
    /\ other = raw_buffer_default
    /\ otherAlive = FALSE
    /\ next = Null
    /\ hist = HistOther
    /\ last = TraitsRecord("none", [cur_size |-> 0, size |-> 0, at_least_size |-> 0],
                           [i \in 1..2 |-> [ok |-> FALSE, more |-> 0]], NoCall(0))
    /\ ub = FALSE

TraitsResize ==
    /\ \E cur_size \in 0..MaxArg, new_size \in 0..MaxArg, ans \in Answers :
        last' = TraitsRecord("resize_allocated",
                    [cur_size |-> cur_size, size |-> new_size, at_least_size |-> new_size],
                    ans, resize_allocated(provider, cur_size, new_size, ans))
    /\ UNCHANGED <<provider, heap, buf, next, alive, hist, ub, other, otherAlive>>

TraitsResizePreferred ==
    /\ \E cur_size \in 0..MaxArg, preferred_size \in 0..MaxArg,
          at_least_size \in 0..MaxArg, ans \in Answers :
        last' = TraitsRecord("resize_allocated_preferred",
                    [cur_size |-> cur_size, size |-> preferred_size,
                     at_least_size |-> at_least_size],
                    ans, resize_allocated_preferred(provider, cur_size, preferred_size,
                                                    at_least_size, ans))
    /\ UNCHANGED <<provider, heap, buf, next, alive, hist, ub, other, otherAlive>>

NextTraits == TraitsResize \/ TraitsResizePreferred
SpecTraits == InitTraits /\ [][NextTraits]_vars

----------------------------------------------------------------------------
(* Properties *)

OldCap == capacity(last.oldBuf)
OldSize == size_of(last.oldBuf, last.oldNext)
Returned(op) == last.op = op /\ last.result = "ok"
\* no call with undefined behaviour before the last operation, nor in it
Defined == last.clean /\ ~last.lg.ub
Prefix(sq, n) == [i \in 1..n |-> sq[i]]

\* C1: capacity() >= size() holds after every autogrow_array operation, whatever
\* the sequence of operations, a default-constructed array of capacity 0 and a
\* shrink_to_fit at size 0 included. Stated for every operation that starts
\* where no call has had undefined behaviour.
C1_CapacityGeSize == last.clean => Cap >= Size

\* C2: after shrink_to_fit() returns normally capacity() == size(), whether the
\* provider shrank the block in place or a new buffer of size() elements was
\* allocated. Stated where no call has had undefined behaviour.
C2_ShrinkToFitExact == (Returned("shrink_to_fit") /\ Defined) => Cap = Size

\* C3: whenever raw_buffer::expand_by_at_least(preferred_n, least_n) returns
\* true, the capacity afterwards is at least the capacity before + least_n.
\* Stated for least_n <= preferred_n, where no call has had undefined behaviour.
C3_ExpandAtLeast ==
    (last.op = "expand_by_at_least" /\ Defined /\ last.ret = TRUE
        /\ last.arg.least_n <= last.arg.preferred_n)
        => Cap >= OldCap + last.arg.least_n

\* C4: zero-copy. When push_back on a full array expands the block in place, no
\* element is moved, allocate and deallocate are not called, element 0 stays at
\* its address, the elements keep their values, and the only element operation
\* is the construction of the pushed value.
C4_ZeroCopy ==
    (Returned("push_back") /\ last.path = "inplace")
        => /\ last.lg.moves = <<>>
           /\ last.lg.destroys = <<>>
           /\ last.lg.allocs = <<>>
           /\ last.lg.deallocs = <<>>
           /\ buf.begin_ = last.oldBuf.begin_
           /\ last.lg.constructs = <<[p |-> last.oldNext, v |-> last.arg]>>
           /\ Size = OldSize + 1
           /\ Prefix(Elems, OldSize) = last.oldElems

\* a push_back that expanded in place an array holding elements
C4_Witness ==
    /\ Returned("push_back") /\ last.path = "inplace"
    /\ OldSize >= 2 /\ last.oldBuf.begin_ # Null /\ Defined

\* C5: fallback. When the in-place resize fails and push_back or shrink_to_fit
\* allocates a new block, every live element i in [0, size) is moved exactly
\* once, in increasing index order, to index i of the new block; afterwards the
\* array holds the same elements as before (and the pushed value at the tail,
\* for push_back), in the new block.
C5_FallbackMoves ==
    (last.op \in {"push_back", "shrink_to_fit"} /\ last.result = "ok"
        /\ last.path = "fallback")
        => /\ last.lg.moves = [i \in 1..OldSize |->
                                 [from |-> PtrAdd(last.oldBuf.begin_, i - 1),
                                  to |-> PtrAdd(buf.begin_, i - 1)]]
           /\ buf.begin_ # last.oldBuf.begin_
           /\ next.blk = buf.begin_.blk
           /\ Elems = IF last.op = "push_back" THEN Append(last.oldElems, last.arg)
                      ELSE last.oldElems

\* C6: starting from an empty array, N push_back calls followed by M <= N
\* pop_back calls leave size() == N - M, whichever path each push took.
C6_PushPopSize ==
    hist.phase \in {"push", "pop"} => Size = hist.nPush - hist.nPop

\* three pushes, among them one expanded in place and one reallocated, then pops
C6_Witness ==
    /\ hist.phase = "pop" /\ hist.nPush = 3 /\ hist.nPop = 2
    /\ {"inplace", "fallback"} \subseteq hist.paths
    /\ last.op = "pop_back"

\* C7: round-trip. Pushing N elements and removing all N, by N pop_back calls
\* or by clear(), returns size() to 0 and leaves capacity() as it was after the
\* last push; pop_back and clear never change the buffer and never call the
\* provider's allocate, deallocate or in-place resize.
C7_RoundTrip ==
    /\ (hist.phase = "pop" /\ hist.nPop = hist.nPush)
          => (Size = 0 /\ Cap = hist.capAfterPush)
    /\ last.op \in {"pop_back", "clear"}
          => /\ buf = last.oldBuf
             /\ last.lg.allocs = <<>>
             /\ last.lg.deallocs = <<>>
             /\ last.lg.resizes = 0

\* three elements pushed, then all of them removed by clear()
C7_Witness ==
    /\ hist.phase = "pop" /\ hist.nPush = 3 /\ hist.nPop = 3
    /\ last.op = "clear" /\ OldSize = 3 /\ Cap >= 3

\* C8: push_back on a full array, whatever its capacity, ends with size ==
\* old size + 1, capacity >= old capacity + 1 and the pushed value at index old
\* size; a following pop_back leaves capacity unchanged and a following
\* shrink_to_fit makes capacity equal to size.
C8_PushOnFull ==
    /\ (Returned("push_back") /\ last.clean /\ OldSize = OldCap)
          => /\ Size = OldSize + 1
             /\ Cap >= OldCap + 1
             /\ Elems[Size] = last.arg
    /\ (Returned("pop_back") /\ last.clean) => Cap = OldCap
    /\ (Returned("shrink_to_fit") /\ Defined) => Cap = Size

\* C9: pop_back destroys exactly the element at index size-1, then decrements
\* size; destroy is only ever called on a constructed slot in [0, size).
C9_PopDestroysLast ==
    /\ Returned("pop_back")
          => /\ last.lg.destroys = <<[p |-> PtrAdd(last.oldNext, -1), st |-> "live"]>>
             /\ Size = OldSize - 1
    /\ \A i \in DOMAIN last.lg.destroys :
          /\ last.lg.destroys[i].p.off < OldSize
          /\ last.lg.destroys[i].st # "raw"

\* C10: every element that was constructed is destroyed exactly once: destroy
\* is never called on a slot that holds no element, and no block is released
\* while a slot of it still holds an undestroyed (live or moved-from) element.
C10_ElementsDestroyedOnce ==
    /\ \A i \in DOMAIN last.lg.deallocs : last.lg.deallocs[i].undestroyed = 0
    /\ \A i \in DOMAIN last.lg.destroys : last.lg.destroys[i].st # "raw"

\* the living raw_buffer objects that hold the block
Owners(blk) == {k \in 1..2 : Obj(k).alive /\ Obj(k).b.begin_.blk = blk}

\* C11: exclusive block ownership. In every reachable state each block obtained
\* from the provider and not yet released is owned by exactly one raw_buffer and
\* no raw_buffer holds a released block; over construction, move, swap and
\* destruction a block is passed to deallocate only by the destructor of its
\* owner, once, while it is allocated, with the owner's capacity at that time.
C11_ExclusiveOwnership ==
    /\ \A blk \in Blocks :
          Cardinality(Owners(blk)) = IF heap[blk].live THEN 1 ELSE 0
    /\ \A i \in DOMAIN last.lg.deallocs :
          /\ last.lg.deallocs[i].live
          /\ last.lg.deallocs[i].p = last.arg.oldDst.b.begin_
          /\ last.lg.deallocs[i].n = capacity(last.arg.oldDst.b)
    /\ Len(last.lg.deallocs) =
          IF last.op = "~raw_buffer" /\ last.arg.oldDst.b.begin_ # Null THEN 1 ELSE 0

\* the second object is destroyed and releases, with its capacity of 3, a block
\* that was expanded in place, while the first object owns another block
C11_Witness ==
    /\ last.op = "~raw_buffer" /\ last.arg.dst = 2
    /\ Len(last.lg.deallocs) = 1 /\ last.lg.deallocs[1].n = 3
    /\ alive /\ buf.begin_ # Null /\ ~ub

\* C12: move construction and move assignment of a raw_buffer both give the
\* source's block to the destination and leave the source empty (begin_ == end_
\* == nullptr), whatever the destination owned before; no element is moved and
\* the provider is not called.
C12_MoveLeavesSourceEmpty ==
    last.op \in {"move_ctor", "move_assign"}
        => /\ Obj(last.arg.dst).b = last.arg.oldSrc.b
           /\ Obj(3 - last.arg.dst).b = raw_buffer_default
           /\ last.lg.moves = <<>>
           /\ last.lg.allocs = <<>>
           /\ last.lg.deallocs = <<>>

\* C13: constructing a raw_buffer with an initial element count n > max_capacity
\* (n * sizeof(T) is not representable) fails with length_error, raised before
\* the provider's allocate is called. Stated where no call has had undefined
\* behaviour.
C13_CtorLengthError ==
    (last.op = "raw_buffer" /\ last.path = "sized" /\ last.arg.n > max_capacity
        /\ Defined)
        => /\ last.result = "length_error"
           /\ last.lg.allocs = <<>>

\* C14: a raw_buffer constructed with an initial element count n (1 <= n <=
\* max_capacity) has, for a provider with allocate_at_least (reallocator), the
\* capacity that provider reports for the block, je_sallocx / sizeof(T); for a
\* provider without it, capacity n.
C14_CtorCapacityFeedback ==
    (last.op = "raw_buffer" /\ last.path = "sized" /\ last.result = "ok" /\ Defined
        /\ last.arg.n >= 1 /\ last.arg.n <= max_capacity)
        => LET b == Obj(last.arg.dst).b IN
           capacity(b) = IF provider = "reallocator"
                         THEN heap[b.begin_.blk].usable \div ElemSize
                         ELSE last.arg.n

\* the provider call (prim, cur_size, size, at_least_size)
TraitsCall(prim, size, at_least_size) ==
    [prim |-> prim, cur_size |-> last.arg.cur_size, size |-> size,
     at_least_size |-> at_least_size]

\* C15: the dual-bound allocator_traits::resize_allocated(a, p, cur_size,
\* preferred_size, at_least_size) resolves in a fixed order: (1) a provider
\* with the dual-bound member is called exactly once, with both bounds, and its
\* result is returned; (2) otherwise a provider with only the single-target
\* member is called once with preferred_size and, only if that fails and
\* at_least_size differs from the preferred size given, once more with
\* at_least_size, whose result is returned; (3) a provider with neither is not
\* called and the result is false. At most two calls, none after a success.
C15_DualBoundResolution ==
    last.op = "resize_allocated_preferred"
        => /\ last.wf
           /\ HasDual(provider)
                => /\ last.calls = <<TraitsCall("dual", last.arg.size,
                                                last.arg.at_least_size)>>
                   /\ last.ret = last.ans[1].ok
           /\ provider = "single"
                => IF ~last.ans[1].ok /\ last.arg.at_least_size # last.arg.size
                   THEN /\ last.calls = <<TraitsCall("single", last.arg.size, 0),
                                          TraitsCall("single", last.arg.at_least_size, 0)>>
                        /\ last.ret = last.ans[2].ok
                   ELSE /\ last.calls = <<TraitsCall("single", last.arg.size, 0)>>
                        /\ last.ret = last.ans[1].ok
           /\ provider = "neither" => (last.calls = <<>> /\ ~last.ret)
           /\ Len(last.calls) <= 2
           /\ \A i \in 1..(Len(last.calls) - 1) : ~last.ans[i].ok

\* C16: the exact allocator_traits::resize_allocated(a, p, cur_size, new_size)
\* returns the first available of (1) the provider's single-target member
\* called with new_size, (2) the provider's dual-bound member called with
\* (new_size, new_size), (3) false; for a provider with only the dual-bound
\* member the result is that member's result.
C16_ExactResolution ==
    last.op = "resize_allocated"
        => /\ last.wf
           /\ HasSingle(provider)
                => /\ last.calls = <<TraitsCall("single", last.arg.size, 0)>>
                   /\ last.ret = last.ans[1].ok
           /\ provider = "dual"
                => /\ last.calls = <<TraitsCall("dual", last.arg.size, last.arg.size)>>
                   /\ last.ret = last.ans[1].ok
           /\ provider = "neither" => (last.calls = <<>> /\ ~last.ret)

\* C17: raw_buffer::expand_by_at_least and raw_buffer::shrink_by never emulate
\* a resize by allocating: they call neither allocate nor deallocate; when they
\* return false begin_ and end_ are as before the call; when they return true
\* begin_ is unchanged and end_ is begin_ + the capacity the provider reports
\* for the block (where the call had defined behaviour).
C17_ResizeInPlaceOnly ==
    last.op \in {"expand_by_at_least", "shrink_by"}
        => /\ last.lg.allocs = <<>>
           /\ last.lg.deallocs = <<>>
           /\ last.lg.moves = <<>>
           /\ buf.begin_ = last.oldBuf.begin_
           /\ last.ret = FALSE => buf = last.oldBuf
           /\ (last.ret = TRUE /\ Defined)
                => /\ provider = "reallocator"
                   /\ Cap = heap[buf.begin_.blk].usable \div ElemSize

\* shrink_by returned true on a block and left a smaller capacity
C17_Witness ==
    /\ last.op = "shrink_by" /\ last.ret = TRUE /\ Defined
    /\ buf.begin_ # Null /\ Cap >= 1 /\ Cap < OldCap

\* C18: raw_buffer::additional_capacity(n) raises length_error exactly when
\* n > max_capacity() - capacity() and otherwise returns min(capacity(),
\* max_capacity() - capacity()), so capacity() + result <= max_capacity(); a
\* push_back on a full array whose capacity is max_capacity() fails with
\* length_error before any provider call and leaves size, capacity and the
\* elements as they were.
C18_AdditionalCapacity ==
    /\ \A n \in 0..SizeMax :
          LET r == additional_capacity(buf, n) IN
          /\ r.throws <=> n > max_capacity - Cap
          /\ ~r.throws => /\ r.val = Min(Cap, max_capacity - Cap)
                          /\ Cap + r.val <= max_capacity
    /\ (last.op = "push_back" /\ OldSize = OldCap /\ OldCap = max_capacity)
          => /\ last.result = "length_error"
             /\ last.lg = Log0
             /\ buf = last.oldBuf
             /\ next = last.oldNext
             /\ Elems = last.oldElems

\* push_back on a full array of capacity max_capacity() has thrown length_error
C18_Witness ==
    /\ last.op = "push_back" /\ last.result = "length_error"
    /\ OldSize = max_capacity /\ OldCap = max_capacity /\ last.clean

\* C19: every in-place expansion request of push_back has preferred_n >=
\* least_n >= 1: the value additional_capacity(1) returns, passed as
\* preferred_n to expand_by_at_least(add_cap, 1), is at least 1, so preferred_n
\* - least_n does not underflow and the fallback buffer of size() + add_cap
\* elements has room for the pushed value. Stated for calls that start where no
\* call has had undefined behaviour.
C19_AddCapAtLeastOne ==
    (last.op = "push_back" /\ last.path \in {"inplace", "fallback"} /\ last.clean)
        => /\ additional_capacity(last.oldBuf, 1).val >= 1
           /\ (last.path = "fallback" /\ last.result = "ok") => Cap >= Size

\* C20: when the provider's allocate fails during the fallback of push_back or
\* shrink_to_fit, bad_alloc reaches the caller and the array is as before the
\* call: same block, size, capacity and elements; no element moved, constructed
\* or destroyed, no block released.
C20_FallbackAllocFailure ==
    (last.op \in {"push_back", "shrink_to_fit"} /\ last.result = "bad_alloc")
        => /\ last.path = "fallback"
           /\ buf = last.oldBuf
           /\ next = last.oldNext
           /\ Elems = last.oldElems
           /\ last.lg.moves = <<>>
           /\ last.lg.constructs = <<>>
           /\ last.lg.destroys = <<>>
           /\ last.lg.deallocs = <<>>
           /\ buf.begin_ # Null => heap[buf.begin_.blk].live

\* push_back on a full array of two elements has thrown bad_alloc
C20_Witness ==
    /\ last.op = "push_back" /\ last.result = "bad_alloc" /\ last.path = "fallback"
    /\ OldSize >= 2 /\ OldSize = OldCap /\ Defined

====
